---- MODULE Spec2Model ----
(***************************************************************************)
(* Model of the answer scoring engine of lib/scorers.ts: the text          *)
(* normalizer, the topic/unit detectors, the phrase matcher, the rule      *)
(* based scorer content_accuracy and the two model-judge scorers.          *)
(*                                                                         *)
(* Text is a sequence of characters; a character is a one-symbol string.   *)
(* Symbols that are not plain ASCII letters or digits are spelled out:     *)
(* "deg" is U+00B0, "TAB" and "NL" are whitespace, "a_tilde" and "e_acute" *)
(* are precomposed accented letters, "A_TILDE" is the upper-case form,     *)
(* "comb_tilde" and "comb_acute" are combining marks (U+0303, U+0301).     *)
(* Scores are exact rationals [n |-> numerator, d |-> denominator].        *)
(***************************************************************************)
EXTENDS Integers, Sequences, FiniteSets, TLC

VARIABLES nz, pm, sc, rt

vars == <<nz, pm, sc, rt>>

(* ------------------------------ bounds --------------------------------- *)
\* longest raw text handed to normalize
MaxTextLen == 3
\* most words of a phrase and of an output handed to phraseMatches
MaxPhraseWords == 5
MaxOutWords == 2
\* most pieces concatenated into a judge response
MaxRespPieces == 2
\* longest requiredPhrases list
MaxPhrases == 2

(* ---------------------------- characters ------------------------------- *)
LowerLetters ==
  {"a","b","c","d","e","f","g","h","i","j","k","l","m",
   "n","o","p","q","r","s","t","u","v","w","x","y","z"}
Digits == {"0","1","2","3","4","5","6","7","8","9"}
UpperSeq == <<"A","B","C","D","E","F","G","H","I","J","K","L","M",
              "N","O","P","Q","R","S","T","U","V","W","X","Y","Z","A_TILDE">>
LowerSeq == <<"a","b","c","d","e","f","g","h","i","j","k","l","m",
              "n","o","p","q","r","s","t","u","v","w","x","y","z","a_tilde">>
CombiningMarks == {"comb_tilde", "comb_acute"}

\* \s of the regular expressions, and the characters trim() removes
IsSpace(c) == c \in {" ", "TAB", "NL"}
\* \d
IsDigit(c) == c \in Digits
\* \w, which decides where \b holds
IsWordChar(c) == c \in LowerLetters \/ c \in Digits \/ c = "_"
                   \/ c \in {UpperSeq[i] : i \in 1..26}

\* the value a missing text argument has
Absent == <<"undefined">>
\* text || ""
OrEmpty(text) == IF text = Absent \/ text = <<>> THEN <<>> ELSE text

RECURSIVE Flatten(_)
Flatten(ss) == IF ss = <<>> THEN <<>> ELSE Head(ss) \o Flatten(Tail(ss))

(* ------------------------------ normalize ------------------------------ *)
LowerChar(c) ==
  IF \E i \in 1..Len(UpperSeq) : UpperSeq[i] = c
    THEN LowerSeq[CHOOSE i \in 1..Len(UpperSeq) : UpperSeq[i] = c]
    ELSE c
\* String.prototype.toLowerCase
ToLowerCase(s) == [i \in 1..Len(s) |-> LowerChar(s[i])]

\* canonical decomposition of one character
Decompose(c) ==
  CASE c = "a_tilde" -> <<"a", "comb_tilde">>
    [] c = "A_TILDE" -> <<"A", "comb_tilde">>
    [] c = "e_acute" -> <<"e", "comb_acute">>
    [] OTHER -> <<c>>
\* String.prototype.normalize("NFD")
NFD(s) == Flatten([i \in 1..Len(s) |-> Decompose(s[i])])

\* .replace(/[\u0300-\u036f]/g, "")
StripMarks(s) == SelectSeq(s, LAMBDA c : c \notin CombiningMarks)

\* the class [a-z0-9<deg>\s\.\-]
IsKept(c) == c \in LowerLetters \/ IsDigit(c) \/ c = "deg" \/ IsSpace(c)
               \/ c = "." \/ c = "-"
\* .replace(/[^a-z0-9<deg>\s\.\-]/g, " ")
ReplaceOther(s) == [i \in 1..Len(s) |-> IF IsKept(s[i]) THEN s[i] ELSE " "]

RECURSIVE CollapseFrom(_, _)
CollapseFrom(s, i) ==
  IF i > Len(s) THEN <<>>
  ELSE IF IsSpace(s[i])
    THEN (IF i > 1 /\ IsSpace(s[i-1]) THEN <<>> ELSE <<" ">>) \o CollapseFrom(s, i+1)
    ELSE <<s[i]>> \o CollapseFrom(s, i+1)
\* .replace(/\s+/g, " ")
CollapseSpaces(s) == CollapseFrom(s, 1)

RECURSIVE TrimStart(_)
TrimStart(s) == IF s # <<>> /\ IsSpace(Head(s)) THEN TrimStart(Tail(s)) ELSE s
RECURSIVE TrimEnd(_)
TrimEnd(s) ==
  IF s # <<>> /\ IsSpace(s[Len(s)]) THEN TrimEnd(SubSeq(s, 1, Len(s)-1)) ELSE s
\* String.prototype.trim
Trim(s) == TrimEnd(TrimStart(s))

\* a normalize that trims and collapses before it replaces punctuation
normalizeReordered(text) ==
  ReplaceOther(Trim(CollapseSpaces(StripMarks(NFD(ToLowerCase(OrEmpty(text)))))))

normalize(text) ==
  Trim(CollapseSpaces(ReplaceOther(StripMarks(NFD(ToLowerCase(OrEmpty(text)))))))

(* -------------------------------- words -------------------------------- *)
\* the words of the tables and of the inputs, by name
W ==
  [temperature |-> <<"t","e","m","p","e","r","a","t","u","r","e">>,
   temp |-> <<"t","e","m","p">>,
   degrees |-> <<"d","e","g","r","e","e","s">>,
   fahrenheit |-> <<"f","a","h","r","e","n","h","e","i","t">>,
   celsius |-> <<"c","e","l","s","i","u","s">>,
   current |-> <<"c","u","r","r","e","n","t">>,
   now |-> <<"n","o","w">>,
   currently |-> <<"c","u","r","r","e","n","t","l","y">>,
   right_now |-> <<"r","i","g","h","t"," ","n","o","w">>,
   as_of |-> <<"a","s"," ","o","f">>,
   rain |-> <<"r","a","i","n">>,
   raining |-> <<"r","a","i","n","i","n","g">>,
   precipitation |-> <<"p","r","e","c","i","p","i","t","a","t","i","o","n">>,
   showers |-> <<"s","h","o","w","e","r","s">>,
   drizzle |-> <<"d","r","i","z","z","l","e">>,
   snow |-> <<"s","n","o","w">>,
   snowing |-> <<"s","n","o","w","i","n","g">>,
   snowfall |-> <<"s","n","o","w","f","a","l","l">>,
   flurries |-> <<"f","l","u","r","r","i","e","s">>,
   humidity |-> <<"h","u","m","i","d","i","t","y">>,
   humid |-> <<"h","u","m","i","d">>,
   moisture |-> <<"m","o","i","s","t","u","r","e">>,
   warmer |-> <<"w","a","r","m","e","r">>,
   hotter |-> <<"h","o","t","t","e","r">>,
   today |-> <<"t","o","d","a","y">>,
   this_day |-> <<"t","h","i","s"," ","d","a","y">>,
   for_today |-> <<"f","o","r"," ","t","o","d","a","y">>,
   weather |-> <<"w","e","a","t","h","e","r">>,
   conditions |-> <<"c","o","n","d","i","t","i","o","n","s">>,
   forecast |-> <<"f","o","r","e","c","a","s","t">>,
   visibility |-> <<"v","i","s","i","b","i","l","i","t","y">>,
   clear_sight |-> <<"c","l","e","a","r"," ","s","i","g","h","t">>,
   haze |-> <<"h","a","z","e">>,
   wind |-> <<"w","i","n","d">>,
   sunrise |-> <<"s","u","n","r","i","s","e">>,
   sunset |-> <<"s","u","n","s","e","t">>,
   constructor |-> <<"c","o","n","s","t","r","u","c","t","o","r">>,
   f |-> <<"f">>,
   c |-> <<"c">>,
   degf |-> <<"deg","f">>,
   degc |-> <<"deg","c">>,
   xyz |-> <<"x","y","z">>,
   qq |-> <<"q","q">>]

(* ------------------------- static lookup tables ------------------------ *)
SynonymKeys ==
  {W.temperature, W.current, W.rain, W.snow, W.humidity, W.warmer, W.today,
   W.weather, W.visibility}
weatherSynonyms ==
  [k \in SynonymKeys |->
     CASE k = W.temperature -> <<W.temp, W.degrees, W.degf, W.degc, W.fahrenheit, W.celsius>>
       [] k = W.current     -> <<W.now, W.currently, W.right_now, W.as_of>>
       [] k = W.rain        -> <<W.raining, W.precipitation, W.showers, W.drizzle>>
       [] k = W.snow        -> <<W.snowing, W.snowfall, W.flurries>>
       [] k = W.humidity    -> <<W.humid, W.moisture>>
       [] k = W.warmer      -> <<W.hotter, W.warmer>>
       [] k = W.today       -> <<W.today, W.this_day, W.for_today>>
       [] k = W.weather     -> <<W.conditions, W.forecast, W.weather>>
       [] k = W.visibility  -> <<W.visibility, W.clear_sight, W.haze>>]

topicKeywords ==
  <<W.temperature, W.weather, W.degf, W.degc, W.degrees, W.fahrenheit, W.celsius,
    W.rain, W.snow, W.humidity, W.wind, W.forecast, W.conditions, W.visibility,
    W.sunrise, W.sunset, W.now, W.today>>

(* ---------------------------- string helpers --------------------------- *)
\* String.prototype.includes
includes(hay, needle) ==
  \E i \in 0..(Len(hay) - Len(needle)) : SubSeq(hay, i+1, i+Len(needle)) = needle

RECURSIVE SplitFrom(_, _, _)
SplitFrom(s, i, cur) ==
  IF i > Len(s) THEN <<cur>>
  ELSE IF s[i] = " " THEN <<cur>> \o SplitFrom(s, i+1, <<>>)
  ELSE SplitFrom(s, i+1, Append(cur, s[i]))
\* String.prototype.split(" ")
split(s) == SplitFrom(s, 1, <<>>)

(* ------------------------------ detectors ------------------------------ *)
\* \b between t[i] and t[i+1], i in 0..Len(t)
WordBoundary(t, i) ==
  (i > 0 /\ IsWordChar(t[i])) # (i < Len(t) /\ IsWordChar(t[i+1]))
AllDigits(t, a, b) == \A j \in a..b : j <= Len(t) /\ IsDigit(t[j])
AllSpaces(t, a, b) == \A j \in a..b : j <= Len(t) /\ IsSpace(t[j])
TempUnits == {W.f, W.c, W.fahrenheit, W.celsius}

\* positions reachable from p by the optional group (\.\d+)?
AfterFraction(t, p) ==
  {p} \cup {q \in (p+2)..Len(t) : t[p+1] = "." /\ AllDigits(t, p+2, q)}
\* positions reachable from p by \s*
AfterSpaces(t, p) == {q \in p..Len(t) : AllSpaces(t, p+1, q)}
\* positions reachable from p by the optional degree sign
AfterDegree(t, p) == {p} \cup {q \in {p+1} : q <= Len(t) /\ t[q] = "deg"}
\* positions reachable from p by (f|c|fahrenheit|celsius)
AfterUnit(t, p) ==
  {p + Len(u) : u \in {v \in TempUnits : p + Len(v) <= Len(t)
                                          /\ SubSeq(t, p+1, p+Len(v)) = v}}

\* /\b\d{1,3}(\.\d+)?\s*<deg>?\s*(f|c|fahrenheit|celsius)\b/.test(t)
TempRegexTest(t) ==
  \E i \in 0..Len(t) :
    /\ WordBoundary(t, i)
    /\ \E k \in 1..3 :
         /\ AllDigits(t, i+1, i+k)
         /\ \E p2 \in AfterFraction(t, i+k) :
            \E p3 \in AfterSpaces(t, p2) :
            \E p4 \in AfterDegree(t, p3) :
            \E p5 \in AfterSpaces(t, p4) :
            \E p6 \in AfterUnit(t, p5) : WordBoundary(t, p6)

hasTempWithUnit(text) == TempRegexTest(normalize(text))

\* topicKeywords.some((kw) => outNorm.includes(kw))
isOnTopic(outNorm) == \E i \in 1..Len(topicKeywords) : includes(outNorm, topicKeywords[i])

(* ---------------------------- phrase matcher --------------------------- *)
\* weatherSynonyms[base]: an own key gives its list; "constructor" is found
\* on Object.prototype and gives a function, which is truthy and not iterable
NotIterable == <<<<"[Function: Object]">>>>
SynonymLookup(base) ==
  IF base \in SynonymKeys THEN weatherSynonyms[base]
  ELSE IF base = W.constructor THEN NotIterable
  ELSE <<>>

\* p.split(" ").filter(Boolean)
PhraseTokens(p) == SelectSeq(split(p), LAMBDA tok : tok # <<>>)
\* tokens.filter((tok) => outNorm.includes(tok)).length
MatchedCount(outNorm, p) ==
  Cardinality({i \in 1..Len(PhraseTokens(p)) : includes(outNorm, PhraseTokens(p)[i])})
\* some synonym of the first word, normalized, is a substring of the output
SynonymHit(outNorm, p) ==
  LET syns == SynonymLookup(split(p)[1])
  IN  syns # NotIterable /\ \E i \in 1..Len(syns) : includes(outNorm, normalize(syns[i]))
\* an overlap test written with > where the code has >=
OverlapHitStrict(outNorm, p) ==
  Len(PhraseTokens(p)) > 0 /\ 5 * MatchedCount(outNorm, p) > 3 * Len(PhraseTokens(p))

\* matched.length / tokens.length >= 0.6 on doubles; the quotient of two small
\* integers is correctly rounded and 0.6 is the double nearest 3/5, so the
\* comparison agrees with 5 * matched >= 3 * tokens
OverlapHit(outNorm, p) ==
  Len(PhraseTokens(p)) > 0 /\ 5 * MatchedCount(outNorm, p) >= 3 * Len(PhraseTokens(p))

\* for (const s of syns) throws a TypeError when syns is not iterable
phraseMatchesThrows(outNorm, phrase) ==
  LET p == normalize(phrase)
  IN  p # <<>> /\ ~includes(outNorm, p) /\ SynonymLookup(split(p)[1]) = NotIterable

\* a matcher that tries the synonyms of every word of the phrase
phraseMatchesAnyWord(outNorm, phrase) ==
  LET p == normalize(phrase)
  IN  \/ p = <<>>
      \/ includes(outNorm, p)
      \/ \E j \in 1..Len(PhraseTokens(p)) :
           LET syns == SynonymLookup(PhraseTokens(p)[j])
           IN  syns # NotIterable /\ \E i \in 1..Len(syns) : includes(outNorm, normalize(syns[i]))
      \/ OverlapHit(outNorm, p)

\* the value phraseMatches returns when it does not throw
phraseMatches(outNorm, phrase) ==
  LET p == normalize(phrase)
  IN  \/ p = <<>>
      \/ includes(outNorm, p)
      \/ SynonymHit(outNorm, p)
      \/ OverlapHit(outNorm, p)

(* ------------------------------- numbers ------------------------------- *)
\* A JavaScript number: the finite n/d (d > 0), NaN, or an infinity whose
\* sign is the sign of n.  Scores are small decimals and quotients of small
\* integers, so a finite double is modelled by the rational it is nearest to.
Fin(n, d) == [k |-> "fin", n |-> n, d |-> d]
NaN == [k |-> "nan", n |-> 0, d |-> 1]
Infinity == [k |-> "inf", n |-> 1, d |-> 1]
isFinite(x) == x.k = "fin"
Zero == Fin(0, 1)
One == Fin(1, 1)
\* a <= b, which is false when either is NaN
NumLeq(a, b) ==
  /\ a.k # "nan" /\ b.k # "nan"
  /\ IF a.k = "inf" THEN a.n < 0 \/ (b.k = "inf" /\ b.n > 0)
     ELSE IF b.k = "inf" THEN b.n > 0
     ELSE a.n * b.d <= b.n * a.d
\* a === b on numbers
NumEq(a, b) == NumLeq(a, b) /\ NumLeq(b, a)
\* Math.max and Math.min: NaN when either argument is NaN
MathMax(a, b) == IF a.k = "nan" \/ b.k = "nan" THEN NaN ELSE IF NumLeq(a, b) THEN b ELSE a
MathMin(a, b) == IF a.k = "nan" \/ b.k = "nan" THEN NaN ELSE IF NumLeq(a, b) THEN a ELSE b

(* ------------------------- values a JSON text holds -------------------- *)
\* ty: the JavaScript type; s: which string / boolean / array it is;
\* n/d: the number a numeric literal, numeric string or one-number array holds
JsVal(ty, s, n, d) == [ty |-> ty, s |-> s, n |-> n, d |-> d]
Undefined == JsVal("undefined", "", 0, 1)
JsNull == JsVal("null", "", 0, 1)
JsNumber(n, d) == JsVal("number", "", n, d)
\* 1e999, which JSON.parse reads as Infinity
JsHuge == JsVal("number", "overflow", 1, 1)
JsNumericString(n, d) == JsVal("string", "numeric", n, d)
JsWordString == JsVal("string", "word", 0, 1)
JsEmptyString == JsVal("string", "empty", 0, 1)
JsTrue == JsVal("boolean", "true", 1, 1)
JsFalse == JsVal("boolean", "false", 0, 1)
JsEmptyArray == JsVal("array", "empty", 0, 1)
JsOneNumberArray(n, d) == JsVal("array", "one", n, d)
JsObject == JsVal("object", "", 0, 1)

\* a coercion that accepts only values whose typeof is "number"
ToNumberNumbersOnly(v) ==
  IF v.ty = "number" THEN (IF v.s = "overflow" THEN Infinity ELSE Fin(v.n, v.d)) ELSE NaN

\* Number(v)
ToNumber(v) ==
  CASE v.ty = "number"  -> IF v.s = "overflow" THEN Infinity ELSE Fin(v.n, v.d)
    [] v.ty = "string"  -> IF v.s = "numeric" THEN Fin(v.n, v.d)
                           ELSE IF v.s = "empty" THEN Fin(0, 1) ELSE NaN
    [] v.ty = "boolean" -> IF v.s = "true" THEN Fin(1, 1) ELSE Fin(0, 1)
    [] v.ty = "null"    -> Fin(0, 1)
    [] v.ty = "array"   -> IF v.s = "empty" THEN Fin(0, 1)
                           ELSE IF v.s = "one" THEN Fin(v.n, v.d) ELSE NaN
    [] OTHER            -> NaN

(* --------------------------- judge response text ------------------------ *)
\* The generated text as a sequence of lexemes: "{", "}", ",", a member key
\* with its colon, a scalar or array literal, or a run of prose.
Tok(k, key, v) == [k |-> k, key |-> key, v |-> v]
LBRACE == Tok("{", "", Undefined)
RBRACE == Tok("}", "", Undefined)
COMMA == Tok(",", "", Undefined)
PROSE == Tok("prose", "", Undefined)
KEY(name) == Tok("key", name, Undefined)
VAL(v) == Tok("val", "", v)

\* A parse of a value starting at lexeme i: whether it succeeded, the lexeme
\* after it, whether the value is an object, and the object's "score" member
\* (the last one when the key is repeated).
Parsed(ok, next, isObj, score) == [ok |-> ok, next |-> next, isObj |-> isObj, score |-> score]
ParseFail == Parsed(FALSE, 0, FALSE, Undefined)

RECURSIVE ParseValue(_, _)
RECURSIVE ParseMembers(_, _, _)
\* after "{" or ",": key value, then "," or "}"
ParseMembers(toks, i, score) ==
  IF i + 1 > Len(toks) \/ toks[i].k # "key" THEN ParseFail
  ELSE LET v == ParseValue(toks, i + 1)
           held == IF v.isObj THEN JsObject ELSE toks[i + 1].v
           kept == IF toks[i].key = "score" THEN held ELSE score
       IN  IF ~v.ok \/ v.next > Len(toks) THEN ParseFail
           ELSE IF toks[v.next].k = "}" THEN Parsed(TRUE, v.next + 1, TRUE, kept)
           ELSE IF toks[v.next].k = "," THEN ParseMembers(toks, v.next + 1, kept)
           ELSE ParseFail
ParseValue(toks, i) ==
  IF i > Len(toks) THEN ParseFail
  ELSE IF toks[i].k = "val" THEN Parsed(TRUE, i + 1, FALSE, Undefined)
  ELSE IF toks[i].k = "{"
    THEN IF i + 1 <= Len(toks) /\ toks[i + 1].k = "}"
           THEN Parsed(TRUE, i + 2, TRUE, Undefined)
           ELSE ParseMembers(toks, i + 1, Undefined)
  ELSE ParseFail

\* JSON.parse(text): ok is FALSE when it throws a SyntaxError; score is what
\* parsed?.score then reads (undefined unless the text is an object with one)
JsonParse(toks) ==
  LET r == ParseValue(toks, 1)
  IN  IF r.ok /\ r.next = Len(toks) + 1 THEN [ok |-> TRUE, score |-> r.score]
      ELSE [ok |-> FALSE, score |-> Undefined]

\* text.match(/\{[\s\S]*\}/): from the first "{" to the last "}" after it
HasBraceMatch(toks) ==
  \E i, j \in 1..Len(toks) : i < j /\ toks[i].k = "{" /\ toks[j].k = "}"
BraceMatch(toks) ==
  LET i == CHOOSE a \in 1..Len(toks) :
             toks[a].k = "{" /\ \A b \in 1..(a-1) : toks[b].k # "{"
      j == CHOOSE a \in 1..Len(toks) :
             toks[a].k = "}" /\ \A b \in (a+1)..Len(toks) : toks[b].k # "}"
  IN  SubSeq(toks, i, j)

(* ------------------------------- scorers ------------------------------- *)
\* the value a missing expected / expected.requiredPhrases has
MissingPhrases == <<Absent>>
\* expected?.requiredPhrases ?? []
PhrasesOrEmpty(ps) == IF ps = MissingPhrases THEN <<>> ELSE ps

TopicFloor == Fin(60, 100)
TempFloor == Fin(75, 100)
WeatherTempFloor == Fin(75, 100)
WeatherTopicFloor == Fin(65, 100)
GeneralTempFloor == Fin(70, 100)
GeneralTopicFloor == Fin(60, 100)

NoError == "(no error field)"
NoNumber == Fin(0, 1)
\* what a scorer call ends in.  kind: "returned" (a ScoreResult), "threw"
\* (an exception left the call) or "none" (no call has ended)
Result(kind, name, score, rawScore, found, onTopic, hasTemp, floor, error) ==
  [kind |-> kind, name |-> name, score |-> score, raw_score |-> rawScore,
   found |-> found, on_topic |-> onTopic, has_temp_with_unit |-> hasTemp,
   soft_floor |-> floor, error |-> error]
NoResult == Result("none", "", Zero, NoNumber, 0, FALSE, FALSE, Zero, NoError)
Threw(name) == Result("threw", name, Zero, NoNumber, 0, FALSE, FALSE, Zero, NoError)

\* a calibration whose temperature floor is an else-branch of the topic floor
CalibrateElseIf(rawScore, onTopic, hasTemp) ==
  LET c == IF onTopic THEN MathMax(rawScore, TopicFloor)
           ELSE IF hasTemp THEN MathMax(rawScore, TempFloor) ELSE rawScore
  IN  MathMin(One, MathMax(Zero, c))

\* calibrated = rawScore; the two floors; the clamp
Calibrate(rawScore, onTopic, hasTemp) ==
  LET c1 == IF onTopic THEN MathMax(rawScore, TopicFloor) ELSE rawScore
      c2 == IF hasTemp THEN MathMax(c1, TempFloor) ELSE c1
  IN  MathMin(One, MathMax(Zero, c2))

\* a ratio without the guard for an empty list: 0 / 0
RawScoreUnguarded(found, total) == IF total = 0 THEN NaN ELSE Fin(found, total)

\* phrases.length === 0 ? 1 : found.length / phrases.length
RawScore(found, total) == IF total = 0 THEN One ELSE Fin(found, total)

contentAccuracyScore(args) ==
  LET phrases == PhrasesOrEmpty(args.phrases)
      out == OrEmpty(args.output)
      outNorm == normalize(out)
      found == {i \in 1..Len(phrases) : phraseMatches(outNorm, phrases[i])}
      rawScore == RawScore(Cardinality(found), Len(phrases))
      onTopic == isOnTopic(outNorm)
      hasTemp == hasTempWithUnit(out)
  IN  IF \E i \in 1..Len(phrases) : phraseMatchesThrows(outNorm, phrases[i])
        THEN Threw("content_accuracy")
        ELSE Result("returned", "content_accuracy",
                    Calibrate(rawScore, onTopic, hasTemp),
                    rawScore, Cardinality(found),
                    onTopic, hasTemp, Zero, NoError)

\* a clamp that forgets the isFinite test
ClampJudgeUnchecked(raw) == MathMax(Zero, MathMin(One, raw))

\* isFinite(rawScore) ? Math.max(0, Math.min(1, rawScore)) : 0
ClampJudge(raw) ==
  IF isFinite(raw) THEN MathMax(Zero, MathMin(One, raw)) ELSE Zero

\* the two-stage parse of the weather judge: threw is TRUE when JSON.parse
\* of the brace match throws inside the catch block
WeatherParse(text) ==
  IF JsonParse(text).ok THEN [threw |-> FALSE, score |-> JsonParse(text).score]
  ELSE IF HasBraceMatch(text)
    THEN IF JsonParse(BraceMatch(text)).ok
           THEN [threw |-> FALSE, score |-> JsonParse(BraceMatch(text)).score]
           ELSE [threw |-> TRUE, score |-> Undefined]
    ELSE [threw |-> FALSE, score |-> Undefined]

\* try { parsed = JSON.parse(text); } catch { parsed = {}; }
GeneralParse(text) ==
  IF JsonParse(text).ok THEN [score |-> JsonParse(text).score]
  ELSE [score |-> Undefined]

\* what generateText ends in
Returned(text) == [threw |-> FALSE, text |-> text, message |-> ""]
Rejected(message) == [threw |-> TRUE, text |-> <<>>, message |-> message]

\* String(err?.message || err) where the generation call rejected with
\* new Error(message); a SyntaxError of JSON.parse carries its own message
SyntaxErrorMessage == "Unexpected token in JSON"

\* a weather judge that lets the failure of the generation call escape
weatherLLMJudgeScoreRethrows(output, gen) ==
  IF gen.threw \/ WeatherParse(gen.text).threw
    THEN Threw("weather_llm_judge")
    ELSE LET rawScore == ToNumber(WeatherParse(gen.text).score)
             outNorm == normalize(OrEmpty(output))
             onTopic == isOnTopic(outNorm)
             tempUnit == hasTempWithUnit(OrEmpty(output))
             softFloor == IF tempUnit THEN WeatherTempFloor
                          ELSE IF onTopic THEN WeatherTopicFloor ELSE Zero
         IN  Result("returned", "weather_llm_judge",
                    MathMax(ClampJudge(rawScore), softFloor),
                    rawScore, 0, onTopic, tempUnit, softFloor, NoError)

\* a weather judge that tests the topic before the temperature
weatherLLMJudgeScoreTopicFirst(output, gen) ==
  IF gen.threw
    THEN Result("returned", "weather_llm_judge", Zero, NoNumber, 0, FALSE, FALSE,
                Zero, gen.message)
  ELSE IF WeatherParse(gen.text).threw
    THEN Result("returned", "weather_llm_judge", Zero, NoNumber, 0, FALSE, FALSE,
                Zero, SyntaxErrorMessage)
  ELSE LET rawScore == ToNumber(WeatherParse(gen.text).score)
           outNorm == normalize(OrEmpty(output))
           onTopic == isOnTopic(outNorm)
           tempUnit == hasTempWithUnit(OrEmpty(output))
           softFloor == IF onTopic THEN WeatherTopicFloor
                        ELSE IF tempUnit THEN WeatherTempFloor ELSE Zero
       IN  Result("returned", "weather_llm_judge",
                  MathMax(ClampJudge(rawScore), softFloor),
                  rawScore, 0, onTopic, tempUnit, softFloor, NoError)

\* the scorer from the end of the generation call on: gen is what
\* generateText ended in
weatherLLMJudgeScore(output, gen) ==
  IF gen.threw
    THEN Result("returned", "weather_llm_judge", Zero, NoNumber, 0, FALSE, FALSE,
                Zero, gen.message)
  ELSE IF WeatherParse(gen.text).threw
    THEN Result("returned", "weather_llm_judge", Zero, NoNumber, 0, FALSE, FALSE,
                Zero, SyntaxErrorMessage)
  ELSE LET rawScore == ToNumber(WeatherParse(gen.text).score)
           outNorm == normalize(OrEmpty(output))
           onTopic == isOnTopic(outNorm)
           tempUnit == hasTempWithUnit(OrEmpty(output))
           softFloor == IF tempUnit THEN WeatherTempFloor
                        ELSE IF onTopic THEN WeatherTopicFloor ELSE Zero
       IN  Result("returned", "weather_llm_judge",
                  MathMax(ClampJudge(rawScore), softFloor),
                  rawScore, 0, onTopic, tempUnit, softFloor, NoError)

generalLLMJudgeScore(output, gen) ==
  IF gen.threw
    THEN Result("returned", "general_llm_judge", Zero, NoNumber, 0, FALSE, FALSE,
                Zero, gen.message)
  ELSE LET raw == ToNumber(GeneralParse(gen.text).score)
           outNorm == normalize(OrEmpty(output))
           onTopic == isOnTopic(outNorm)
           tempUnit == hasTempWithUnit(OrEmpty(output))
           softFloor == IF tempUnit THEN GeneralTempFloor
                        ELSE IF onTopic THEN GeneralTopicFloor ELSE Zero
       IN  Result("returned", "general_llm_judge",
                  MathMax(ClampJudge(raw), softFloor),
                  raw, 0, onTopic, tempUnit, softFloor, NoError)

(* ------------------------------- inputs -------------------------------- *)
\* "Hello xyz!"
o_offtopic == <<"H","e","l","l","o"," ","x","y","z","!">>
\* "Rain today!"
o_topic == <<"R","a","i","n"," ","t","o","d","a","y","!">>
\* "54<deg>F"
o_temp == <<"5","4","deg","F">>
\* "It is 54 F"
o_temp_only == <<"I","t"," ","i","s"," ","5","4"," ","F">>
\* "Code 1054f"
o_not_temp == <<"C","o","d","e"," ","1","0","5","4","f">>
\* "72.5 <deg>C  now"
o_fraction == <<"7","2",".","5"," ","deg","C"," "," ","n","o","w">>
\* "The current temp is 54 degrees"
o_example == <<"T","h","e"," ","c","u","r","r","e","n","t"," ","t","e","m","p"," ","i","s"," ","5","4"," ","d","e","g","r","e","e","s">>
\* "S<a_tilde>o Paulo"
t_sao_accented == <<"S","a_tilde","o"," ","P","a","u","l","o">>
t_sao_plain == <<"S","a","o"," ","P","a","u","l","o">>
p_report == <<"c","u","r","r","e","n","t"," ","w","e","a","t","h","e","r"," ","r","e","p","o","r","t">>

\* the characters raw texts handed to normalize are drawn from
NormChars == {"a", "T", "A_TILDE", "e_acute", "comb_acute", "5", "deg", ".", "-",
              " ", "TAB", "!", "_"}
SeqsUpTo(S, n) == UNION {[1..k -> S] : k \in 0..n}
RawTexts == SeqsUpTo(NormChars, MaxTextLen) \cup {Absent}

RECURSIVE JoinWords(_)
\* words.join(" ")
JoinWords(ws) ==
  IF ws = <<>> THEN <<>>
  ELSE IF Len(ws) = 1 THEN ws[1]
  ELSE ws[1] \o <<" ">> \o JoinWords(Tail(ws))
\* phrases and outputs the phrase matcher is tried on
PhraseWords == {W.temperature, W.xyz}
OutWords == {W.temp, W.xyz, W.qq}
MatcherPhrases == {JoinWords(ws) : ws \in SeqsUpTo(PhraseWords, MaxPhraseWords)}
MatcherOutputs == {JoinWords(ws) : ws \in SeqsUpTo(OutWords, MaxOutWords)} \cup {o_example}

\* candidate answers the scorers are called on
Outputs == {Absent, <<>>, o_offtopic, o_topic, o_temp, o_temp_only, o_not_temp,
            o_fraction, o_example, t_sao_plain}
\* required phrases, and the requiredPhrases lists built from them
Phrases == {W.temperature, W.xyz, <<>>, W.constructor, t_sao_accented, p_report}
PhraseLists == SeqsUpTo(Phrases, MaxPhrases) \cup {MissingPhrases}

\* score members a judge may write
ScoreValues == {JsNumber(80, 100), JsNumber(150, 100), JsNumber(-50, 100), JsHuge,
                JsNumericString(80, 100), JsWordString, JsEmptyString, JsTrue, JsFalse,
                JsNull, JsEmptyArray}
\* {"score": v, "reason": "ok"}
ScoreObject(v) == <<LBRACE, KEY("score"), VAL(v), COMMA, KEY("reason"), VAL(JsWordString), RBRACE>>
\* the parts judge responses are put together from
ResponsePieces ==
  {ScoreObject(v) : v \in ScoreValues}
    \cup {<<PROSE>>,                                          \* Here is my answer:
          <<LBRACE, KEY("reason"), VAL(JsWordString), RBRACE>>, \* {"reason": "ok"}
          <<LBRACE, KEY("score"), LBRACE, RBRACE, RBRACE>>,     \* {"score": {}}
          <<LBRACE, PROSE, RBRACE>>,                            \* {oops}
          <<VAL(JsNumber(80, 100))>>,                           \* 0.8
          <<LBRACE>>, <<RBRACE>>}
Responses == {Flatten(ps) : ps \in SeqsUpTo(ResponsePieces, MaxRespPieces)}
\* messages of the errors the generation call rejects with
ErrorMessages == {"request timed out", "rate limit exceeded"}

(* --------------------------- the state machines ------------------------- *)
\* nz: one text put through normalize and through normalize again
\* pm: one call of phraseMatches
\* sc: one call of a scorer; calls counts the generation calls it issued
\* rt: one request to the chat route, from the creation of the stream on
NzIdle == [pc |-> "off", text |-> <<>>, once |-> <<>>, twice |-> <<>>]
PmIdle == [pc |-> "off", out |-> <<>>, phrase |-> <<>>, outNorm |-> <<>>, result |-> FALSE]
NoGen == [threw |-> FALSE, text |-> <<>>, message |-> ""]
ScIdle == [pc |-> "idle", fn |-> "", output |-> <<>>, phrases |-> <<>>, calls |-> 0,
           gen |-> NoGen, result |-> NoResult]

\* a judge call of the route: not started, awaiting generateText, settled
JudgeIdle == [pc |-> "idle", gen |-> NoGen, result |-> NoResult]
NoLog == [logged |-> FALSE, fahrenheit_presence |-> 0, contains_number |-> 0]
\* the lookup tables of the scorers module as they stand in memory
Tables == [synonyms |-> weatherSynonyms, topics |-> topicKeywords]
RtIdle == [pc |-> "off", mode |-> "null", response |-> "none", text |-> <<>>,
           log |-> NoLog, wj |-> JudgeIdle, gj |-> JudgeIdle, content |-> NoResult,
           update |-> {}, events |-> <<>>, unhandled |-> FALSE, tables |-> Tables]

InitNorm ==
  /\ nz \in {[pc |-> "raw", text |-> t, once |-> <<>>, twice |-> <<>>] : t \in RawTexts}
  /\ pm = PmIdle
  /\ sc = ScIdle
  /\ rt = RtIdle
NormalizeOnce ==
  /\ nz.pc = "raw"
  /\ nz' = [nz EXCEPT !.pc = "once", !.once = normalize(nz.text)]
  /\ UNCHANGED <<pm, sc, rt>>
NormalizeAgain ==
  /\ nz.pc = "once"
  /\ nz' = [nz EXCEPT !.pc = "twice", !.twice = normalize(nz.once)]
  /\ UNCHANGED <<pm, sc, rt>>
NextNorm == NormalizeOnce \/ NormalizeAgain
SpecNorm == InitNorm /\ [][NextNorm]_vars

InitMatch ==
  /\ pm \in {[pc |-> "ready", out |-> o, phrase |-> p, outNorm |-> <<>>, result |-> FALSE] :
               o \in MatcherOutputs, p \in MatcherPhrases}
  /\ nz = NzIdle
  /\ sc = ScIdle
  /\ rt = RtIdle
\* const outNorm = normalize(out)
NormalizeOutput ==
  /\ pm.pc = "ready"
  /\ pm' = [pm EXCEPT !.pc = "normalized", !.outNorm = normalize(pm.out)]
  /\ UNCHANGED <<nz, sc, rt>>
Match ==
  /\ pm.pc = "normalized"
  /\ pm' = [pm EXCEPT !.pc = "done", !.result = phraseMatches(pm.outNorm, pm.phrase)]
  /\ UNCHANGED <<nz, sc, rt>>
NextMatch == NormalizeOutput \/ Match
SpecMatch == InitMatch /\ [][NextMatch]_vars

Init ==
  /\ sc = ScIdle
  /\ nz = NzIdle
  /\ pm = PmIdle
  /\ rt = RtIdle
CallContentAccuracy ==
  /\ sc.pc = "idle"
  /\ \E o \in Outputs, ps \in PhraseLists :
       sc' = [sc EXCEPT !.pc = "done", !.fn = "content_accuracy", !.output = o,
                        !.phrases = ps,
                        !.result = contentAccuracyScore([output |-> o, phrases |-> ps])]
  /\ UNCHANGED <<nz, pm, rt>>
\* the scorer up to its await of generateText
CallWeatherJudge ==
  /\ sc.pc = "idle"
  /\ \E o \in Outputs :
       sc' = [sc EXCEPT !.pc = "awaiting", !.fn = "weather_llm_judge", !.output = o,
                        !.calls = sc.calls + 1]
  /\ UNCHANGED <<nz, pm, rt>>
CallGeneralJudge ==
  /\ sc.pc = "idle"
  /\ \E o \in Outputs :
       sc' = [sc EXCEPT !.pc = "awaiting", !.fn = "general_llm_judge", !.output = o,
                        !.calls = sc.calls + 1]
  /\ UNCHANGED <<nz, pm, rt>>
\* the rest of the scorer once the generation call has ended in gen
Finish(gen) ==
  sc' = [sc EXCEPT !.pc = "done", !.gen = gen,
                   !.result = IF sc.fn = "weather_llm_judge"
                                THEN weatherLLMJudgeScore(sc.output, gen)
                                ELSE generalLLMJudgeScore(sc.output, gen)]
GenerationReturns ==
  /\ sc.pc = "awaiting"
  /\ \E text \in Responses : Finish(Returned(text))
  /\ UNCHANGED <<nz, pm, rt>>
\* a catch path that issues the generation call once more before giving up
GenerationThrowsRetries ==
  /\ sc.pc = "awaiting"
  /\ \/ sc.calls < 2 /\ sc' = [sc EXCEPT !.calls = sc.calls + 1]
     \/ sc.calls >= 2 /\ \E m \in ErrorMessages : Finish(Rejected(m))
  /\ UNCHANGED <<nz, pm, rt>>
GenerationThrows ==
  /\ sc.pc = "awaiting"
  /\ \E m \in ErrorMessages : Finish(Rejected(m))
  /\ UNCHANGED <<nz, pm, rt>>
Next ==
  \/ CallContentAccuracy
  \/ CallWeatherJudge
  \/ CallGeneralJudge
  \/ GenerationReturns
  \/ GenerationThrows
Spec == Init /\ [][Next]_vars

(* ------------------------------ the chat route -------------------------- *)
\* ?mode= of the request URL; "null" when the parameter is missing
RouteModes == {"text", "data", "null"}
\* result.text of the finished stream
RouteTexts == {Absent, o_offtopic, o_topic, o_temp, o_temp_only,
               <<"F">> \o Tail(W.fahrenheit)}
\* how the generation call of a judge ends
RouteGens ==
  {Returned(ScoreObject(JsNumber(80, 100))),
   Returned(<<PROSE>>),
   Returned(<<LBRACE, PROSE, RBRACE>>),
   Rejected("request timed out")}
\* /fahrenheit|\bF\b/i
mentionsFahrenheit(text) ==
  \/ includes(ToLowerCase(text), W.fahrenheit)
  \/ \E j \in 1..Len(text) :
       text[j] \in {"f", "F"} /\ WordBoundary(text, j - 1) /\ WordBoundary(text, j)
\* /\d+/
hasNumber(text) == \E j \in 1..Len(text) : IsDigit(text[j])
RequiredPhrases == <<W.temperature, W.weather>>
ResponseFor(mode) == IF mode = "text" THEN "text-stream" ELSE "data-stream"
\* the keys of the scores object: a key is spread in when its score is not null
ScoreKeys(results) == {r.name : r \in {x \in results : x.kind = "returned"}}

InitRoute ==
  /\ rt \in {[RtIdle EXCEPT !.pc = "streaming", !.mode = m] : m \in RouteModes}
  /\ nz = NzIdle
  /\ pm = PmIdle
  /\ sc = ScIdle
\* if (mode === "text") return stream.toTextStreamResponse();
\* return stream.toDataStreamResponse();
ReturnResponse ==
  /\ rt.pc # "off"
  /\ rt.response = "none"
  /\ rt' = [rt EXCEPT !.response = ResponseFor(rt.mode)]
  /\ UNCHANGED <<nz, pm, sc>>
\* an onFinish that starts the judges and logs the simple scores afterwards
StreamFinishesLogsLast ==
  /\ rt.pc = "streaming"
  /\ \E t \in RouteTexts :
       LET text == OrEmpty(t)
       IN  rt' = [rt EXCEPT
                    !.pc = "judging", !.text = text,
                    !.log = [logged |-> TRUE,
                             fahrenheit_presence |-> IF mentionsFahrenheit(text) THEN 1 ELSE 0,
                             contains_number |-> IF hasNumber(text) THEN 1 ELSE 0],
                    !.wj = [rt.wj EXCEPT !.pc = "awaiting"],
                    !.gj = [rt.gj EXCEPT !.pc = "awaiting"],
                    !.events = rt.events \o <<"generateText weather", "generateText general",
                                              "span.log">>]
  /\ UNCHANGED <<nz, pm, sc>>
\* onFinish: span.log with the simple scores, then the task runs both
\* judges up to their await of generateText
StreamFinishes ==
  /\ rt.pc = "streaming"
  /\ \E t \in RouteTexts :
       LET text == OrEmpty(t)
       IN  rt' = [rt EXCEPT
                    !.pc = "judging", !.text = text,
                    !.log = [logged |-> TRUE,
                             fahrenheit_presence |-> IF mentionsFahrenheit(text) THEN 1 ELSE 0,
                             contains_number |-> IF hasNumber(text) THEN 1 ELSE 0],
                    !.wj = [rt.wj EXCEPT !.pc = "awaiting"],
                    !.gj = [rt.gj EXCEPT !.pc = "awaiting"],
                    !.events = rt.events \o <<"span.log", "generateText weather",
                                              "generateText general">>]
  /\ UNCHANGED <<nz, pm, sc>>
WeatherGenerationEnds ==
  /\ rt.wj.pc = "awaiting"
  /\ \E gen \in RouteGens :
       rt' = [rt EXCEPT !.wj = [pc |-> "settled", gen |-> gen,
                                result |-> weatherLLMJudgeScore(rt.text, gen)],
                        !.events = rt.events \o <<"settled weather">>]
  /\ UNCHANGED <<nz, pm, sc>>
\* a general judge that parses whichever response arrived last
GeneralGenerationEndsShared ==
  /\ rt.gj.pc = "awaiting"
  /\ \E gen \in RouteGens :
       LET last == IF rt.wj.pc = "settled" THEN rt.wj.gen ELSE gen
       IN  rt' = [rt EXCEPT !.gj = [pc |-> "settled", gen |-> gen,
                                    result |-> generalLLMJudgeScore(rt.text, last)],
                            !.events = rt.events \o <<"settled general">>]
  /\ UNCHANGED <<nz, pm, sc>>
GeneralGenerationEnds ==
  /\ rt.gj.pc = "awaiting"
  /\ \E gen \in RouteGens :
       rt' = [rt EXCEPT !.gj = [pc |-> "settled", gen |-> gen,
                                result |-> generalLLMJudgeScore(rt.text, gen)],
                        !.events = rt.events \o <<"settled general">>]
  /\ UNCHANGED <<nz, pm, sc>>
\* Promise.all has resolved: contentAccuracyScore, then the call of
\* logger.updateSpan; a throw on the way is caught by the task
CallUpdateSpan ==
  /\ rt.pc = "judging"
  /\ rt.wj.pc = "settled" /\ rt.gj.pc = "settled"
  /\ LET contentScore == contentAccuracyScore([output |-> rt.text,
                                               phrases |-> RequiredPhrases])
     IN  IF "threw" \in {rt.wj.result.kind, rt.gj.result.kind, contentScore.kind}
           THEN rt' = [rt EXCEPT !.pc = "swallowed"]
           ELSE rt' = [rt EXCEPT
                         !.pc = "updating", !.content = contentScore,
                         !.update = ScoreKeys({rt.wj.result, rt.gj.result, contentScore}),
                         !.events = rt.events \o <<"updateSpan">>]
  /\ UNCHANGED <<nz, pm, sc>>
UpdateSpanResolves ==
  /\ rt.pc = "updating"
  /\ rt' = [rt EXCEPT !.pc = "finished"]
  /\ UNCHANGED <<nz, pm, sc>>
\* a task without the catch: the rejection is nobody's
UpdateSpanRejectsUncaught ==
  /\ rt.pc = "updating"
  /\ rt' = [rt EXCEPT !.pc = "swallowed", !.unhandled = TRUE]
  /\ UNCHANGED <<nz, pm, sc>>
\* logger.updateSpan throws or rejects: catch (e) { }
UpdateSpanRejects ==
  /\ rt.pc = "updating"
  /\ rt' = [rt EXCEPT !.pc = "swallowed"]
  /\ UNCHANGED <<nz, pm, sc>>
NextRoute ==
  \/ ReturnResponse
  \/ StreamFinishes
  \/ WeatherGenerationEnds
  \/ GeneralGenerationEnds
  \/ CallUpdateSpan
  \/ UpdateSpanResolves
  \/ UpdateSpanRejects
SpecRoute == InitRoute /\ [][NextRoute]_vars

(* ------------------------------ properties ----------------------------- *)
Done == sc.pc = "done"
IsJudge == sc.fn \in {"weather_llm_judge", "general_llm_judge"}
ReturnedResult == Done /\ sc.result.kind = "returned"
\* the generation call of a finished judge call returned a text
GotText == Done /\ IsJudge /\ ~sc.gen.threw
\* a finite number in [0,1]
InUnitInterval(x) == isFinite(x) /\ x.d > 0 /\ NumLeq(Zero, x) /\ NumLeq(x, One)
\* the detectors on the candidate answer of the call
OutputHasTemp == hasTempWithUnit(OrEmpty(sc.output))
OutputOnTopic == isOnTopic(normalize(OrEmpty(sc.output)))
\* the floor section 4.5 step 5 gives the judge of the call
StatedFloor ==
  IF OutputHasTemp
    THEN (IF sc.fn = "weather_llm_judge" THEN Fin(75, 100) ELSE Fin(70, 100))
  ELSE IF OutputOnTopic
    THEN (IF sc.fn = "weather_llm_judge" THEN Fin(65, 100) ELSE Fin(60, 100))
  ELSE Zero
\* the verdict section 4.5 step 3 reads from a text: the direct parse, else
\* the parse of the brace-delimited substring, else the empty verdict
BraceParses(text) == HasBraceMatch(text) /\ JsonParse(BraceMatch(text)).ok
StatedVerdictScore(text) ==
  IF JsonParse(text).ok THEN JsonParse(text).score
  ELSE IF BraceParses(text) THEN JsonParse(BraceMatch(text)).score
  ELSE Undefined
\* section 4.5 step 4: absent or non-finite is 0, otherwise clamped
StatedJudgeScore(text) ==
  LET x == ToNumber(StatedVerdictScore(text))
  IN  IF ~isFinite(x) \/ NumLeq(x, Zero) THEN Zero ELSE IF NumLeq(One, x) THEN One ELSE x

\* C1: every ScoreResult a scorer returns, on every path (any output, any
\* judge response, the failure path), has a score that is a finite number
\* in [0,1].
C1_ScoreInUnitInterval == ReturnedResult => InUnitInterval(sc.result.score)
\* a judge wrote a score that is not a number and the call still returned
C1_Witness ==
  /\ GotText /\ sc.result.kind = "returned"
  /\ sc.result.raw_score = NaN
  /\ sc.gen.text = ScoreObject(JsWordString)

\* C2: when the candidate answer has a temperature with a unit, content
\* accuracy and the weather judge score at least 0.75 and the general judge
\* at least 0.70, whatever phrases matched and whatever text the generation
\* call returned.
C2_TempFloorAlways ==
  (ReturnedResult /\ OutputHasTemp /\ (IsJudge => ~sc.gen.threw))
    => NumLeq(IF sc.fn = "general_llm_judge" THEN Fin(70, 100) ELSE Fin(75, 100),
              sc.result.score)

\* C3: when the generation call throws, each judge scorer resolves with
\* score 0 and an error field describing the failure; nothing is thrown
\* out of the scorer.
C3_FailureContained ==
  (Done /\ IsJudge /\ sc.gen.threw)
    => /\ sc.result.kind = "returned"
       /\ sc.result.name = sc.fn
       /\ NumEq(sc.result.score, Zero)
       /\ sc.result.error = sc.gen.message
       /\ sc.result.error # NoError
C3_Witness ==
  /\ Done /\ sc.fn = "weather_llm_judge" /\ sc.gen.threw
  /\ sc.output = o_temp
  /\ sc.result.error = "request timed out"

\* C4: a returned text that is not JSON and from which no JSON object can
\* be recovered (braces around something that is not JSON included) is an
\* empty verdict: the judge returns the floor-only score and no error field.
Unrecoverable(text) == ~JsonParse(text).ok /\ ~BraceParses(text)
C4_ParseFailureIsNotAnError ==
  (GotText /\ Unrecoverable(sc.gen.text))
    => /\ sc.result.kind = "returned"
       /\ sc.result.error = NoError
       /\ NumEq(sc.result.score, StatedFloor)

\* C5: for both judges, when direct parsing of the returned text fails and
\* its brace-delimited substring is a JSON object, the score of that object
\* is the pre-floor score (0.8 for prose followed by {"score": 0.8, ...}).
C5_TwoStageParse ==
  (GotText /\ ~JsonParse(sc.gen.text).ok /\ BraceParses(sc.gen.text))
    => /\ sc.result.error = NoError
       /\ sc.result.raw_score = ToNumber(JsonParse(BraceMatch(sc.gen.text)).score)
       /\ (sc.gen.text = <<PROSE>> \o ScoreObject(JsNumber(80, 100))
             => NumEq(sc.result.score, MathMax(Fin(80, 100), StatedFloor)))

\* C6: content accuracy with an empty or absent requiredPhrases list scores
\* exactly 1.0 for every output.
C6_EmptyPhrasesScoreOne ==
  (Done /\ sc.fn = "content_accuracy" /\ PhrasesOrEmpty(sc.phrases) = <<>>)
    => /\ sc.result.kind = "returned"
       /\ NumEq(sc.result.score, One)
       /\ NumEq(sc.result.raw_score, One)
\* an absent list and an absent output, which raises no floor
C6_Witness ==
  /\ Done /\ sc.fn = "content_accuracy"
  /\ sc.phrases = MissingPhrases /\ sc.output = Absent
  /\ ~sc.result.on_topic /\ ~sc.result.has_temp_with_unit

\* C7: calibration never lowers a score: content accuracy ends at or above
\* its raw_score, and a judge whose generation call returned ends at
\* max(judge score clamped to [0,1], floor).
C7_CalibrationOnlyRaises ==
  /\ (ReturnedResult /\ sc.fn = "content_accuracy")
       => NumLeq(sc.result.raw_score, sc.result.score)
  /\ GotText
       => /\ sc.result.kind = "returned"
          /\ NumEq(sc.result.score, MathMax(StatedJudgeScore(sc.gen.text), StatedFloor))

\* C8: normalize(normalize(T)) = normalize(T) for every text T, the absent
\* text, accented letters, punctuation and runs of whitespace included.
C8_NormalizeIdempotent == nz.pc = "twice" => nz.twice = nz.once
\* an accented capital, a punctuation mark and a capital give "a t"
C8_Witness ==
  /\ nz.pc = "twice"
  /\ nz.text = <<"A_TILDE", "!", "T">>
  /\ nz.once = <<"a", " ", "t">>

\* the phrase of the matcher call, normalized, and its tokens
PmPhrase == normalize(pm.phrase)
PmTotal == Len(PhraseTokens(PmPhrase))
\* how many tokens of the phrase are substrings of the normalized output
PmPresent ==
  Cardinality({i \in 1..PmTotal : includes(pm.outNorm, PhraseTokens(PmPhrase)[i])})
\* a listed synonym of word w is a substring of the normalized output
SynonymPresent(w) ==
  w \in SynonymKeys
    /\ \E i \in 1..Len(weatherSynonyms[w]) :
         includes(pm.outNorm, normalize(weatherSynonyms[w][i]))
FirstWordSynonymPresent == PmTotal >= 1 /\ SynonymPresent(PhraseTokens(PmPhrase)[1])
LaterWordSynonymPresent ==
  \E j \in 2..PmTotal : SynonymPresent(PhraseTokens(PmPhrase)[j])

C10_FirstWordSynonyms ==
  pm.pc = "done"
    => /\ FirstWordSynonymPresent => pm.result
       /\ (/\ LaterWordSynonymPresent /\ ~FirstWordSynonymPresent
           /\ ~includes(pm.outNorm, PmPhrase)
           /\ 5 * PmPresent < 3 * PmTotal) => ~pm.result
\* "temperature" against "the current temp is 54 degrees"
C10_Witness ==
  /\ pm.pc = "done"
  /\ pm.out = o_example /\ pm.phrase = W.temperature
  /\ ~includes(pm.outNorm, PmPhrase)
  /\ pm.result

\* the generated text of a finished judge call is itself valid JSON
HasVerdict == GotText /\ JsonParse(sc.gen.text).ok
\* the score member of that JSON (undefined when there is none)
VerdictScore == JsonParse(sc.gen.text).score

\* C11 as stated: when the parsed JSON is present and its score is missing
\* or is not a number (a string, boolean, null, array or object), the judge
\* score is 0 before the floor and the error path is not taken.
C11_MalformedScoreAsStated ==
  (HasVerdict /\ VerdictScore.ty # "number")
    => /\ sc.result.error = NoError
       /\ NumEq(sc.result.score, StatedFloor)
\* C11 amended: the error path is never taken; a score that is missing, an
\* object or a string that does not read as a number counts as 0, and so do
\* null, false, the empty string and the empty array; a string that reads
\* as a number counts as that number, clamped, and true counts as 1.
C11_MalformedScore ==
  HasVerdict
    => /\ sc.result.kind = "returned" /\ sc.result.error = NoError
       /\ (\/ VerdictScore.ty \in {"undefined", "object", "null"}
           \/ VerdictScore.ty = "string" /\ VerdictScore.s \in {"word", "empty"}
           \/ VerdictScore.ty = "boolean" /\ VerdictScore.s = "false"
           \/ VerdictScore.ty = "array" /\ VerdictScore.s = "empty")
            => NumEq(sc.result.score, StatedFloor)
       /\ (VerdictScore.ty \in {"undefined", "object"}
             \/ (VerdictScore.ty = "string" /\ VerdictScore.s = "word"))
            => sc.result.raw_score = NaN
       /\ (VerdictScore.ty = "string" /\ VerdictScore.s = "numeric")
            => NumEq(sc.result.score,
                     MathMax(MathMax(Zero, MathMin(One, Fin(VerdictScore.n, VerdictScore.d))),
                             StatedFloor))
       /\ (VerdictScore.ty = "boolean" /\ VerdictScore.s = "true")
            => NumEq(sc.result.score, One)
\* {"score": "0.8", ...} on an off-topic answer scores 0.8
C11_Witness ==
  /\ HasVerdict
  /\ VerdictScore = JsNumericString(80, 100)
  /\ sc.output = o_offtopic
  /\ NumEq(sc.result.score, Fin(80, 100))

\* C12: contentAccuracyScore is total: a call with missing args, a missing
\* output or a missing expected / requiredPhrases never throws; the missing
\* values degrade to the empty string and the empty list, and a ScoreResult
\* named content_accuracy is returned.
C12_ContentAccuracyTotal ==
  (Done /\ sc.fn = "content_accuracy"
     /\ (sc.output = Absent \/ sc.phrases = MissingPhrases))
    => /\ sc.result.kind = "returned"
       /\ sc.result.name = "content_accuracy"
       /\ sc.result = contentAccuracyScore([output |-> OrEmpty(sc.output),
                                            phrases |-> PhrasesOrEmpty(sc.phrases)])

\* the judge result of the call carries calibration metadata (it is not
\* the failure result)
Calibrated == GotText /\ sc.result.kind = "returned" /\ sc.result.error = NoError

\* C14: the floor of a judge depends on the detectors on the candidate
\* output alone: 0.75 (weather) or 0.70 (general) with a temperature and
\* unit, else 0.65 or 0.60 when on topic, else 0; the temperature floor
\* wins when both hold, and soft_floor reports the floor that was applied.
C14_FloorSelection ==
  Calibrated
    => /\ sc.result.on_topic = OutputOnTopic
       /\ sc.result.has_temp_with_unit = OutputHasTemp
       /\ NumEq(sc.result.soft_floor, StatedFloor)
       /\ NumLeq(sc.result.soft_floor, sc.result.score)
       /\ NumEq(sc.result.score,
                MathMax(ClampJudge(sc.result.raw_score), sc.result.soft_floor))
\* both detectors hold and the judge wrote -0.5: the weather floor is 0.75
C14_Witness ==
  /\ Calibrated /\ sc.fn = "weather_llm_judge"
  /\ sc.output = o_temp /\ OutputOnTopic /\ OutputHasTemp
  /\ sc.gen.text = ScoreObject(JsNumber(-50, 100))
  /\ sc.result.soft_floor = Fin(75, 100)
  /\ sc.result.score = Fin(75, 100)

\* how many phrases of the call's list phraseMatches accepts
AcceptedPhrases ==
  Cardinality({i \in 1..Len(PhrasesOrEmpty(sc.phrases)) :
                 phraseMatches(normalize(OrEmpty(sc.output)), sc.phrases[i])})
\* C15: the raw score of content accuracy is accepted phrases / required
\* phrases, the final score is the maximum of the raw score, 0.6 when the
\* normalized output has a topic keyword, and 0.75 when it has a temperature
\* with a unit; with neither signal it is the raw ratio.
C15_ContentCalibration ==
  (ReturnedResult /\ sc.fn = "content_accuracy")
    => /\ sc.result.found = AcceptedPhrases
       /\ Len(PhrasesOrEmpty(sc.phrases)) > 0
            => NumEq(sc.result.raw_score, Fin(AcceptedPhrases, Len(sc.phrases)))
       /\ NumEq(sc.result.score,
                MathMax(sc.result.raw_score,
                        IF OutputHasTemp THEN Fin(75, 100)
                        ELSE IF OutputOnTopic THEN Fin(60, 100) ELSE Zero))
       /\ (~OutputHasTemp /\ ~OutputOnTopic)
            => NumEq(sc.result.score, sc.result.raw_score)
\* no phrase accepted, both signals present: the higher floor
C15_Witness ==
  /\ ReturnedResult /\ sc.fn = "content_accuracy"
  /\ sc.output = o_temp /\ sc.phrases = <<W.xyz>>
  /\ OutputOnTopic /\ OutputHasTemp
  /\ NumEq(sc.result.raw_score, Zero)
  /\ sc.result.score = Fin(75, 100)

\* C16: a judge scorer issues exactly one generation call; after a failed
\* call or a failed parse it returns without issuing another.
C16_NoRetries ==
  /\ IsJudge => sc.calls = 1
  /\ (Done /\ IsJudge /\ (sc.gen.threw \/ ~JsonParse(sc.gen.text).ok)) => sc.calls = 1
  /\ sc.calls <= 1
\* the generation call failed and the scorer has returned
C16_Witness ==
  /\ Done /\ IsJudge /\ sc.gen.threw
  /\ sc.result.kind = "returned"
  /\ sc.calls = 1

\* C13: online scoring is best-effort and non-blocking: the handler can
\* return the streamed response whatever the scoring task is doing, a
\* failure inside the task is never left unhandled, and the response is the
\* stream response the mode asks for.
C13_BestEffortNonBlocking ==
  /\ ~rt.unhandled
  /\ rt.response \in {"none", ResponseFor(rt.mode)}
  /\ (rt.pc # "off" /\ rt.response = "none") => ENABLED ReturnResponse
\* a judge call failed, logger.updateSpan failed, and the text stream was
\* handed back all the same
C13_Witness ==
  /\ rt.pc = "swallowed"
  /\ rt.wj.gen.threw
  /\ rt.mode = "text" /\ rt.response = "text-stream"
  /\ ~rt.unhandled

Before(a, b) ==
  \A j \in 1..Len(rt.events) :
    rt.events[j] = b => \E i \in 1..(j - 1) : rt.events[i] = a
Times(a) == Cardinality({i \in 1..Len(rt.events) : rt.events[i] = a})
\* C18: span.log with the simple scores comes before any generation call
\* of a judge; logger.updateSpan is called at most once, after both judges
\* have settled, and carries the three score keys.
C18_OnlineScoringOrder ==
  /\ Before("span.log", "generateText weather")
  /\ Before("span.log", "generateText general")
  /\ (rt.wj.pc # "idle" \/ rt.gj.pc # "idle") => rt.log.logged
  /\ Times("updateSpan") <= 1
  /\ Before("settled weather", "updateSpan")
  /\ Before("settled general", "updateSpan")
  /\ Times("updateSpan") = 1
       => rt.update = {"weather_llm_judge", "general_llm_judge", "content_accuracy"}
\* both generation calls failed and the update was made with three keys
C18_Witness ==
  /\ Times("updateSpan") = 1
  /\ rt.wj.gen.threw /\ rt.gj.gen.threw
  /\ Cardinality(rt.update) = 3
  /\ rt.log.logged

====
